---- MODULE Spec2Model ----
(***************************************************************************)
(* Model of bubble (src/main.go): a periodic churn controller that clones  *)
(* and destroys containers of one image according to an up:down ratio.     *)
(*                                                                         *)
(* Strings that the program parses are sequences of one-character strings. *)
(* The Docker daemon is an external collaborator: a call on a container    *)
(* that does not exist fails, every other call may succeed or fail.        *)
(***************************************************************************)
EXTENDS Integers, Sequences, FiniteSets, TLC

(* ---------------------------- bounds ----------------------------------- *)
\* containers present before the program starts
MaxContainers == 3
\* largest digit used for the sides of the --ratio argument of a full run
MaxDigit == 2
\* timer ticks whose step reaches the daemon; it is down at later ticks
MaxSteps == 1
\* SIGTERM deliveries per run
MaxSignals == 1
\* length of the strings handed to RatioValue.Set on its own
MaxLen == 5
\* largest count handed to copyContainer / deleteContainer on their own
MaxCount == 2

(* ---------------------------- strings ---------------------------------- *)
Digits == <<"0", "1", "2", "3", "4", "5", "6", "7", "8", "9">>

IsDigit(c) == \E d \in 1..10 : Digits[d] = c

DigitVal(c) == (CHOOSE d \in 1..10 : Digits[d] = c) - 1

\* strings.Split(s, ":"): the tokens between the separators, in order;
\* a string without separator is one token, the empty string included.
RECURSIVE Split(_)
Split(s) ==
    IF \A k \in 1..Len(s) : s[k] # ":"
    THEN <<s>>
    ELSE LET k == CHOOSE j \in 1..Len(s) :
                      s[j] = ":" /\ \A m \in 1..(j - 1) : s[m] # ":"
         IN  <<SubSeq(s, 1, k - 1)>> \o Split(SubSeq(s, k + 1, Len(s)))

\* strconv.ParseUint(s, 10, bitSize) keeps its result below 2^bitSize
BitSize == 8

MaxVal(bits) == 2 ^ bits - 1

ParseFail == [ok |-> FALSE, val |-> 0]

\* the digit loop of ParseUint: n is the value of the prefix read so far
RECURSIVE ParseDigits(_, _, _)
ParseDigits(s, acc, maxVal) ==
    IF s = <<>> THEN [ok |-> TRUE, val |-> acc]
    ELSE IF ~IsDigit(Head(s)) THEN ParseFail
    ELSE LET n1 == acc * 10 + DigitVal(Head(s))
         IN  IF n1 > maxVal THEN ParseFail
             ELSE ParseDigits(Tail(s), n1, maxVal)

ParseUintWide(s, bits) ==
    IF s = <<>> THEN ParseFail ELSE ParseDigits(s, 0, MaxVal(2 * bits))

ParseUint(s, bits) ==
    IF s = <<>> THEN ParseFail ELSE ParseDigits(s, 0, MaxVal(bits))

(* ---------------------------- RatioValue ------------------------------- *)
ZeroRatio == [Up |-> 0, Down |-> 0]

DefaultRatio == [Up |-> 1, Down |-> 1]

\* RatioValue.Set: the receiver r is left alone unless both sides parse
RatioSet(r, s) ==
    LET vars == Split(s) IN
    IF Len(vars) # 2 THEN [err |-> TRUE, r |-> r]
    ELSE LET up == ParseUint(vars[1], BitSize)
             down == ParseUint(vars[2], BitSize)
         IN  IF ~up.ok THEN [err |-> TRUE, r |-> r]
             ELSE IF ~down.ok THEN [err |-> TRUE, r |-> r]
             ELSE [err |-> FALSE, r |-> [Up |-> up.val, Down |-> down.val]]

isZeroBothSides(r) == r.Up = 0 /\ r.Down = 0

isZero(r) == r.Up = 0 \/ r.Down = 0

(* ---------------------------- state ------------------------------------ *)
VARIABLES
    pc,         \* position of the main goroutine
    mode,       \* "main": a run of main(); "unit"/"parse": one function alone
    argRatio,   \* the --ratio argument (NoArg when the flag is not given)
    image,      \* the --image argument
    parsed,     \* ratio as flag.Parse left it
    ratio,      \* the variable ratio of main
    fleet,      \* the daemon's containers: id -> [image, state]
    nextId,     \* id the daemon gives to the next created container
    containers, \* job's containers, the result of ContainerList
    candidates, \* job's candidates / deleteContainer's parameter
    tmpl,       \* containertoCopy / copyContainer's parameter container
    config,     \* infos.Config read by ContainerInspect
    n,          \* parameter n of the running copyContainer / deleteContainer
    i,          \* loop index of the running copyContainer / deleteContainer
    cur,        \* container drawn by the current deleteContainer iteration
    created,    \* createdBody.ID
    ret,        \* error value returned by the function that returned last
    log,        \* driver calls of the current step, in order
    jobErr,     \* what main saw job return last
    steps,      \* timer ticks so far, counted up to MaxSteps + 1
    sigSent,    \* SIGTERMs delivered to the process
    exitStatus, \* process exit status, NotExited while it runs
    closed      \* client.Close() has run

vars == <<pc, mode, argRatio, image, parsed, ratio, fleet, nextId, containers,
          candidates, tmpl, config, n, i, cur, created, ret, log, jobErr,
          steps, sigSent, exitStatus, closed>>

\* not a string: its element is no character
NoArg == <<"noarg">>
NotExited == -1
NoContainer == [ID |-> 0, Image |-> <<>>]

TargetImage == <<"a", "p", "p", ":", "v", "1">>
OtherImage == <<"a", "p", "p">>

\* every id the daemon can hand out within the bounds
MaxIds == MaxContainers + MaxSteps * MaxDigit + MaxCount
Ids == 1..MaxIds

Absent == [image |-> <<>>, state |-> "absent"]

Exists(id) == id \in Ids /\ fleet[id].state # "absent"

\* the fleets the program can find when it starts: up to MaxContainers
\* running containers, those of the configured image first
InitialFleets ==
    UNION { { [id \in Ids |->
                 IF id <= t
                 THEN [image |-> TargetImage, state |-> "running"]
                 ELSE IF id <= t + o
                 THEN [image |-> OtherImage, state |-> "running"]
                 ELSE Absent] : o \in 0..(MaxContainers - t) } :
            t \in 0..MaxContainers }

\* the --ratio arguments of a full run
RatioArgs ==
    { <<Digits[a + 1], ":", Digits[b + 1]>> : a \in 0..MaxDigit, b \in 0..MaxDigit }
    \cup { <<"x", ":", "1">>, <<"1">>, <<"1", ":", "1", ":", "1">> }

(* ---------------------------- the daemon ------------------------------- *)
\* outcomes of a driver call: it can fail at any time, and succeeds only
\* when the daemon is able to serve it
Outcomes(possible) == IF possible THEN {TRUE, FALSE} ELSE {FALSE}

Call(op, id, ok) == [op |-> op, id |-> id, ok |-> ok]

\* ContainerList with default options: the running containers
RECURSIVE ListFrom(_, _)
ListFrom(f, id) ==
    IF id > MaxIds THEN <<>>
    ELSE (IF f[id].state = "running"
          THEN <<[ID |-> id, Image |-> f[id].image]>>
          ELSE <<>>) \o ListFrom(f, id + 1)

Listing(f) == ListFrom(f, 1)

IsPrefix(a, b) == Len(a) <= Len(b) /\ SubSeq(b, 1, Len(a)) = a

IsCandidateByPrefix(container, img) ==
    IsPrefix(container.Image, img) \/ IsPrefix(img, container.Image)

\* job's filter: container.Image == image
IsCandidate(container, img) == container.Image = img

RECURSIVE Filter(_, _)
Filter(list, img) ==
    IF list = <<>> THEN <<>>
    ELSE (IF IsCandidate(Head(list), img)
          THEN <<Head(list)>> ELSE <<>>) \o Filter(Tail(list), img)

(* ---------------------------- main: start-up --------------------------- *)
Exit(status) ==
    /\ pc' = "exited"
    /\ exitStatus' = status

\* flag.Parse(): pflag calls ratio.Set on the argument and exits with
\* status 2 when Set returns an error
FlagParse ==
    /\ pc = "flag_parse"
    /\ mode = "main"
    /\ IF argRatio = NoArg
       THEN /\ pc' = "resolve"
            /\ UNCHANGED <<parsed, ratio, exitStatus>>
       ELSE LET res == RatioSet(ratio, argRatio) IN
            IF res.err
            THEN /\ Exit(2)
                 /\ UNCHANGED <<parsed, ratio>>
            ELSE /\ ratio' = res.r
                 /\ parsed' = res.r
                 /\ pc' = "resolve"
                 /\ UNCHANGED exitStatus
    /\ UNCHANGED <<mode, argRatio, containers, image, fleet, nextId,
                   candidates, tmpl, config, n, i, cur, created, ret, log,
                   jobErr, steps, sigSent, closed>>

\* if ratio.isZero() { ratio = RatioValue{1, 1} }, then signal.Notify
ResolveRatio ==
    /\ pc = "resolve"
    /\ ratio' = IF isZero(ratio) THEN DefaultRatio ELSE ratio
    /\ pc' = "check_image"
    /\ UNCHANGED <<mode, argRatio, containers, image, parsed, fleet, nextId,
                   candidates, tmpl, config, n, i, cur, created, ret, log,
                   jobErr, steps, sigSent, exitStatus, closed>>

CheckImage ==
    /\ pc = "check_image"
    /\ IF image = <<>>
       THEN Exit(1)
       ELSE pc' = "new_client" /\ UNCHANGED exitStatus
    /\ UNCHANGED <<mode, argRatio, containers, image, parsed, ratio, fleet,
                   nextId, candidates, tmpl, config, n, i, cur, created,
                   ret, log, jobErr, steps, sigSent, closed>>

NewClient ==
    /\ pc = "new_client"
    /\ \E ok \in BOOLEAN :
          IF ok THEN pc' = "select" /\ UNCHANGED exitStatus
          ELSE Exit(1)
    /\ UNCHANGED <<mode, argRatio, containers, image, parsed, ratio, fleet,
                   nextId, candidates, tmpl, config, n, i, cur, created,
                   ret, log, jobErr, steps, sigSent, closed>>

(* ---------------------------- main: the loop --------------------------- *)
InLoop == pc \notin {"flag_parse", "resolve", "check_image", "new_client", "exited"}

TickWhileRunning ==
    /\ pc \notin {"flag_parse", "resolve", "check_image", "new_client",
                  "got_signal", "exited", "job_list"}
    /\ steps' = IF steps <= MaxSteps THEN steps + 1 ELSE steps
    /\ pc' = "job_list"
    /\ UNCHANGED <<mode, argRatio, containers, image, parsed, ratio, fleet,
                   nextId, candidates, tmpl, config, n, i, cur, created,
                   ret, log, jobErr, sigSent, exitStatus, closed>>

\* case <-time.After(*freq): job is called
Tick ==
    /\ pc = "select"
    /\ steps' = IF steps <= MaxSteps THEN steps + 1 ELSE steps
    /\ pc' = "job_list"
    /\ UNCHANGED <<mode, argRatio, containers, image, parsed, ratio, fleet,
                   nextId, candidates, tmpl, config, n, i, cur, created,
                   ret, log, jobErr, sigSent, exitStatus, closed>>

CanReceiveAnywhere(p) == TRUE

\* sig is unbuffered and the signal package never blocks on a send: the
\* signal reaches main only when main is parked in the select
CanReceive(p) == p = "select"

\* a SIGTERM delivered while main is in the loop
Signal ==
    /\ mode = "main"
    /\ InLoop
    /\ sigSent < MaxSignals
    /\ sigSent' = sigSent + 1
    /\ pc' = IF CanReceive(pc) THEN "got_signal" ELSE pc
    /\ UNCHANGED <<mode, argRatio, containers, image, parsed, ratio, fleet,
                   nextId, candidates, tmpl, config, n, i, cur, created,
                   ret, log, jobErr, steps, exitStatus, closed>>

\* case <-sig: return, which runs the deferred client.Close()
Shutdown ==
    /\ pc = "got_signal"
    /\ closed' = TRUE
    /\ Exit(0)
    /\ UNCHANGED <<mode, argRatio, containers, image, parsed, ratio, fleet,
                   nextId, candidates, tmpl, config, n, i, cur, created,
                   ret, log, jobErr, steps, sigSent>>

(* ---------------------------- job -------------------------------------- *)
\* ContainerList, the image filter and the empty-pool return
JobList ==
    /\ pc = "job_list"
    /\ \E ok \in Outcomes(steps <= MaxSteps) :
          /\ log' = Append(log, Call("list", 0, ok))
          /\ IF ~ok
             THEN /\ containers' = <<>>
                  /\ ret' = "driver_err"
                  /\ pc' = "job_ret"
                  /\ UNCHANGED candidates
             ELSE /\ containers' = Listing(fleet)
                  /\ candidates' = Filter(Listing(fleet), image)
                  /\ IF Len(candidates') = 0
                     THEN ret' = "nil" /\ pc' = "job_ret"
                     ELSE ret' = "none" /\ pc' = "job_pick"
    /\ UNCHANGED <<mode, argRatio, image, parsed, ratio, fleet, nextId,
                   tmpl, config, n, i, cur, created, jobErr, steps, sigSent,
                   exitStatus, closed>>

JobPickCheckingPool ==
    /\ pc = "job_pick"
    /\ IF ratio.Down > Len(candidates)
       THEN /\ ret' = "insufficient_err"
            /\ pc' = "job_ret"
            /\ UNCHANGED <<tmpl, n>>
       ELSE /\ \E k \in 1..Len(candidates) : tmpl' = candidates[k]
            /\ n' = ratio.Up
            /\ pc' = "copy_inspect"
            /\ UNCHANGED ret
    /\ UNCHANGED <<mode, argRatio, containers, image, parsed, ratio, fleet,
                   nextId, candidates, config, i, cur, created, log,
                   jobErr, steps, sigSent, exitStatus, closed>>

\* containertoCopy := candidates[rand.Intn(len(candidates))] and the call
\* copyContainer(client, containertoCopy, ratio.Up)
JobPick ==
    /\ pc = "job_pick"
    /\ \E k \in 1..Len(candidates) : tmpl' = candidates[k]
    /\ n' = ratio.Up
    /\ pc' = "copy_inspect"
    /\ UNCHANGED <<mode, argRatio, containers, image, parsed, ratio, fleet,
                   nextId, candidates, config, i, cur, created, ret, log,
                   jobErr, steps, sigSent, exitStatus, closed>>

JobAfterCopyRelisting ==
    /\ pc = "copy_ret"
    /\ mode = "main"
    /\ IF ret # "nil"
       THEN pc' = "job_ret" /\ UNCHANGED <<n, candidates>>
       ELSE /\ pc' = "del_enter"
            /\ n' = ratio.Down
            /\ candidates' = Filter(Listing(fleet), image)
    /\ UNCHANGED <<mode, argRatio, containers, image, parsed, ratio, fleet,
                   nextId, tmpl, config, i, cur, created, ret, log, jobErr,
                   steps, sigSent, exitStatus, closed>>

JobAfterCopyIgnoringError ==
    /\ pc = "copy_ret"
    /\ mode = "main"
    /\ pc' = "del_enter"
    /\ n' = ratio.Down
    /\ UNCHANGED <<mode, argRatio, containers, image, parsed, ratio, fleet,
                   nextId, candidates, tmpl, config, i, cur, created, ret,
                   log, jobErr, steps, sigSent, exitStatus, closed>>

\* copyContainer returned: its error is job's, else deleteContainer is
\* called with the candidates of the listing and ratio.Down
JobAfterCopy ==
    /\ pc = "copy_ret"
    /\ mode = "main"
    /\ IF ret # "nil"
       THEN pc' = "job_ret" /\ UNCHANGED n
       ELSE pc' = "del_enter" /\ n' = ratio.Down
    /\ UNCHANGED <<mode, argRatio, containers, image, parsed, ratio, fleet,
                   nextId, candidates, tmpl, config, i, cur, created, ret,
                   log, jobErr, steps, sigSent, exitStatus, closed>>

\* deleteContainer returned: its result is job's
JobAfterDelete ==
    /\ pc = "del_ret"
    /\ mode = "main"
    /\ pc' = "job_ret"
    /\ UNCHANGED <<mode, argRatio, containers, image, parsed, ratio, fleet,
                   nextId, candidates, tmpl, config, n, i, cur, created,
                   ret, log, jobErr, steps, sigSent, exitStatus, closed>>

JobReturnFatal ==
    /\ pc = "job_ret"
    /\ jobErr' = ret
    /\ IF ret = "nil"
       THEN pc' = "select" /\ UNCHANGED exitStatus
       ELSE Exit(1)
    /\ containers' = <<>>
    /\ candidates' = <<>>
    /\ tmpl' = NoContainer
    /\ config' = [Image |-> <<>>]
    /\ n' = 0
    /\ i' = 0
    /\ cur' = NoContainer
    /\ created' = 0
    /\ ret' = "none"
    /\ log' = <<>>
    /\ UNCHANGED <<mode, argRatio, image, parsed, ratio, fleet, nextId,
                   steps, sigSent, closed>>

\* job returns to main, which logs a failure and goes back to the select;
\* job's locals are gone and the next step starts a new record of calls
JobReturn ==
    /\ pc = "job_ret"
    /\ jobErr' = ret
    /\ pc' = "select"
    /\ containers' = <<>>
    /\ candidates' = <<>>
    /\ tmpl' = NoContainer
    /\ config' = [Image |-> <<>>]
    /\ n' = 0
    /\ i' = 0
    /\ cur' = NoContainer
    /\ created' = 0
    /\ ret' = "none"
    /\ log' = <<>>
    /\ UNCHANGED <<mode, argRatio, image, parsed, ratio, fleet, nextId,
                   steps, sigSent, exitStatus, closed>>

(* ---------------------------- copyContainer ---------------------------- *)
LoopCondInclusive(k, count) == k <= count

\* the condition i < n of both for loops
LoopCond(k, count) == k < count

\* ContainerInspect of the parameter container, before the loop
CopyInspect ==
    /\ pc = "copy_inspect"
    /\ \E ok \in Outcomes(Exists(tmpl.ID)) :
          /\ log' = Append(log, Call("inspect", tmpl.ID, ok))
          /\ IF ~ok
             THEN /\ ret' = "driver_err"
                  /\ pc' = "copy_ret"
                  /\ UNCHANGED <<config, i>>
             ELSE /\ config' = [Image |-> fleet[tmpl.ID].image]
                  /\ i' = 0
                  /\ IF LoopCond(0, n)
                     THEN pc' = "copy_create" /\ ret' = "none"
                     ELSE pc' = "copy_ret" /\ ret' = "nil"
    /\ UNCHANGED <<mode, argRatio, containers, image, parsed, ratio, fleet,
                   nextId, candidates, tmpl, n, cur, created, jobErr, steps,
                   sigSent, exitStatus, closed>>

\* ContainerCreate from the inspected configuration
CopyCreate ==
    /\ pc = "copy_create"
    /\ \E ok \in Outcomes(nextId \in Ids) :
          IF ~ok
          THEN /\ log' = Append(log, Call("create", 0, FALSE))
               /\ ret' = "driver_err"
               /\ pc' = "copy_ret"
               /\ UNCHANGED <<fleet, nextId, created>>
          ELSE /\ log' = Append(log, Call("create", nextId, TRUE))
               /\ created' = nextId
               /\ fleet' = [fleet EXCEPT ![nextId] =
                                [image |-> config.Image, state |-> "created"]]
               /\ nextId' = nextId + 1
               /\ pc' = "copy_start"
               /\ UNCHANGED ret
    /\ UNCHANGED <<mode, argRatio, containers, image, parsed, ratio,
                   candidates, tmpl, config, n, i, cur, jobErr, steps,
                   sigSent, exitStatus, closed>>

CopyStartWithRollback ==
    /\ pc = "copy_start"
    /\ \E ok \in Outcomes(Exists(created)) :
          /\ log' = Append(log, Call("start", created, ok))
          /\ IF ~ok
             THEN /\ ret' = "driver_err"
                  /\ pc' = "copy_ret"
                  /\ fleet' = [id \in Ids |->
                                  IF id >= nextId - i - 1 /\ id < nextId
                                  THEN Absent ELSE fleet[id]]
                  /\ UNCHANGED i
             ELSE /\ fleet' = [fleet EXCEPT ![created].state = "running"]
                  /\ i' = i + 1
                  /\ IF LoopCond(i + 1, n)
                     THEN pc' = "copy_create" /\ UNCHANGED ret
                     ELSE pc' = "copy_ret" /\ ret' = "nil"
    /\ UNCHANGED <<mode, argRatio, containers, image, parsed, ratio, nextId,
                   candidates, tmpl, config, n, cur, created, jobErr, steps,
                   sigSent, exitStatus, closed>>

\* ContainerStart of the created container, then the next iteration
CopyStart ==
    /\ pc = "copy_start"
    /\ \E ok \in Outcomes(Exists(created)) :
          /\ log' = Append(log, Call("start", created, ok))
          /\ IF ~ok
             THEN /\ ret' = "driver_err"
                  /\ pc' = "copy_ret"
                  /\ UNCHANGED <<fleet, i>>
             ELSE /\ fleet' = [fleet EXCEPT ![created].state = "running"]
                  /\ i' = i + 1
                  /\ IF LoopCond(i + 1, n)
                     THEN pc' = "copy_create" /\ UNCHANGED ret
                     ELSE pc' = "copy_ret" /\ ret' = "nil"
    /\ UNCHANGED <<mode, argRatio, containers, image, parsed, ratio, nextId,
                   candidates, tmpl, config, n, cur, created, jobErr, steps,
                   sigSent, exitStatus, closed>>

(* ---------------------------- deleteContainer -------------------------- *)
TooManyOffByOne(count, pool) == count > Len(pool) + 1

\* int(n) > len(candidates)
TooMany(count, pool) == count > Len(pool)

\* the guard on the pool size, then the loop
DelEnter ==
    /\ pc = "del_enter"
    /\ i' = 0
    /\ IF TooMany(n, candidates)
       THEN ret' = "insufficient_err" /\ pc' = "del_ret"
       ELSE IF LoopCond(0, n)
            THEN pc' = "del_stop" /\ ret' = "none"
            ELSE pc' = "del_ret" /\ ret' = "nil"
    /\ UNCHANGED <<mode, argRatio, containers, image, parsed, ratio, fleet,
                   nextId, candidates, tmpl, config, n, cur, created, log,
                   jobErr, steps, sigSent, exitStatus, closed>>

DelStopWithoutReplacement ==
    /\ pc = "del_stop"
    /\ \E k \in { j \in 1..Len(candidates) : Exists(candidates[j].ID) } :
          /\ cur' = candidates[k]
          /\ \E ok \in Outcomes(Exists(candidates[k].ID)) :
                /\ log' = Append(log, Call("stop", candidates[k].ID, ok))
                /\ IF ~ok
                   THEN /\ ret' = "driver_err"
                        /\ pc' = "del_ret"
                        /\ UNCHANGED fleet
                   ELSE /\ fleet' = [fleet EXCEPT ![candidates[k].ID].state = "exited"]
                        /\ pc' = "del_wait"
                        /\ UNCHANGED ret
    /\ UNCHANGED <<mode, argRatio, containers, image, parsed, ratio, nextId,
                   candidates, tmpl, config, n, i, created, jobErr, steps,
                   sigSent, exitStatus, closed>>

\* container := candidates[rand.Intn(len(candidates))] and ContainerStop
DelStop ==
    /\ pc = "del_stop"
    /\ \E k \in 1..Len(candidates) :
          /\ cur' = candidates[k]
          /\ \E ok \in Outcomes(Exists(candidates[k].ID)) :
                /\ log' = Append(log, Call("stop", candidates[k].ID, ok))
                /\ IF ~ok
                   THEN /\ ret' = "driver_err"
                        /\ pc' = "del_ret"
                        /\ UNCHANGED fleet
                   ELSE /\ fleet' = [fleet EXCEPT ![candidates[k].ID].state = "exited"]
                        /\ pc' = "del_wait"
                        /\ UNCHANGED ret
    /\ UNCHANGED <<mode, argRatio, containers, image, parsed, ratio, nextId,
                   candidates, tmpl, config, n, i, created, jobErr, steps,
                   sigSent, exitStatus, closed>>

DelWaitIgnoringFailure ==
    /\ pc = "del_wait"
    /\ \E ok \in Outcomes(Exists(cur.ID)) :
          /\ log' = Append(log, Call("wait", cur.ID, ok))
          /\ pc' = "del_remove"
    /\ UNCHANGED <<mode, argRatio, containers, image, parsed, ratio, fleet,
                   nextId, candidates, tmpl, config, n, i, cur, created,
                   ret, jobErr, steps, sigSent, exitStatus, closed>>

\* readyCh, _ := ContainerWait(...); <-readyCh. A failed wait reports on
\* the error channel, which is discarded, and never sends on readyCh
DelWait ==
    /\ pc = "del_wait"
    /\ \E ok \in Outcomes(Exists(cur.ID)) :
          /\ log' = Append(log, Call("wait", cur.ID, ok))
          /\ pc' = IF ok THEN "del_remove" ELSE "del_blocked"
    /\ UNCHANGED <<mode, argRatio, containers, image, parsed, ratio, fleet,
                   nextId, candidates, tmpl, config, n, i, cur, created,
                   ret, jobErr, steps, sigSent, exitStatus, closed>>

\* ContainerRemove without force, then the next iteration
DelRemove ==
    /\ pc = "del_remove"
    /\ \E ok \in Outcomes(Exists(cur.ID) /\ fleet[cur.ID].state # "running") :
          /\ log' = Append(log, Call("remove", cur.ID, ok))
          /\ IF ~ok
             THEN /\ ret' = "driver_err"
                  /\ pc' = "del_ret"
                  /\ UNCHANGED <<fleet, i>>
             ELSE /\ fleet' = [fleet EXCEPT ![cur.ID] = Absent]
                  /\ i' = i + 1
                  /\ IF LoopCond(i + 1, n)
                     THEN pc' = "del_stop" /\ UNCHANGED ret
                     ELSE pc' = "del_ret" /\ ret' = "nil"
    /\ UNCHANGED <<mode, argRatio, containers, image, parsed, ratio, nextId,
                   candidates, tmpl, config, n, cur, created, jobErr, steps,
                   sigSent, exitStatus, closed>>

(* ---------------------------- specifications -------------------------- *)
Idle ==
    /\ parsed = ZeroRatio
    /\ ratio = ZeroRatio
    /\ nextId = MaxContainers + 1
    /\ containers = <<>>
    /\ config = [Image |-> <<>>]
    /\ i = 0
    /\ cur = NoContainer
    /\ created = 0
    /\ ret = "none"
    /\ log = <<>>
    /\ jobErr = "none"
    /\ steps = 0
    /\ sigSent = 0
    /\ exitStatus = NotExited
    /\ closed = FALSE

\* a run of main(): any arguments, any fleet
Init ==
    /\ mode = "main"
    /\ pc = "flag_parse"
    /\ argRatio \in RatioArgs \cup {NoArg}
    /\ image \in {<<>>, TargetImage}
    /\ fleet \in InitialFleets
    /\ candidates = <<>>
    /\ tmpl = NoContainer
    /\ n = 0
    /\ Idle

Next ==
    \/ FlagParse
    \/ ResolveRatio
    \/ CheckImage
    \/ NewClient
    \/ Tick
    \/ Signal
    \/ Shutdown
    \/ JobList
    \/ JobPick
    \/ JobAfterCopy
    \/ JobAfterDelete
    \/ JobReturn
    \/ CopyInspect
    \/ CopyCreate
    \/ CopyStart
    \/ DelEnter
    \/ DelStop
    \/ DelWait
    \/ DelRemove

Spec == Init /\ [][Next]_vars

\* every step of the program itself; the timer always fires, a signal may
\* never come
ProgramStep ==
    \/ FlagParse
    \/ ResolveRatio
    \/ CheckImage
    \/ NewClient
    \/ Tick
    \/ Shutdown
    \/ JobList
    \/ JobPick
    \/ JobAfterCopy
    \/ JobAfterDelete
    \/ JobReturn
    \/ CopyInspect
    \/ CopyCreate
    \/ CopyStart
    \/ DelEnter
    \/ DelStop
    \/ DelWait
    \/ DelRemove

FairSpec == Init /\ [][Next]_vars /\ WF_vars(ProgramStep)

(* copyContainer and deleteContainer on their own, with any arguments *)
RECURSIVE SubPool(_, _, _)
SubPool(seq, S, k) ==
    IF k > Len(seq) THEN <<>>
    ELSE (IF k \in S THEN <<seq[k]>> ELSE <<>>) \o SubPool(seq, S, k + 1)

Pools(f) == { SubPool(Listing(f), S, 1) : S \in SUBSET (1..Len(Listing(f))) }

UnitInit ==
    /\ mode = "unit"
    /\ argRatio = NoArg
    /\ image = TargetImage
    /\ fleet \in InitialFleets
    /\ n \in 0..MaxCount
    /\ \/ /\ pc = "copy_inspect"
          /\ tmpl \in {Listing(fleet)[k] : k \in 1..Len(Listing(fleet))} \cup {NoContainer}
          /\ candidates = <<>>
       \/ /\ pc = "del_enter"
          /\ tmpl = NoContainer
          /\ candidates \in Pools(fleet)
    /\ Idle

UnitNext ==
    \/ CopyInspect
    \/ CopyCreate
    \/ CopyStart
    \/ DelEnter
    \/ DelStop
    \/ DelWait
    \/ DelRemove

UnitSpec == UnitInit /\ [][UnitNext]_vars

(* RatioValue.Set on its own, on any short string *)
Alphabet == {"0", "1", "2", "5", "6", ":", "x"}

Strings == UNION { [1..k -> Alphabet] : k \in 0..MaxLen }

ParseInit ==
    /\ mode = "parse"
    /\ pc = "set_call"
    /\ argRatio \in Strings
    /\ image = TargetImage
    /\ fleet = [id \in Ids |-> Absent]
    /\ candidates = <<>>
    /\ tmpl = NoContainer
    /\ n = 0
    /\ Idle

\* err := r.Set(s)
ParseSet ==
    /\ pc = "set_call"
    /\ mode = "parse"
    /\ LET res == RatioSet(ratio, argRatio) IN
          /\ ratio' = res.r
          /\ ret' = IF res.err THEN "format_err" ELSE "nil"
    /\ pc' = "set_ret"
    /\ UNCHANGED <<mode, argRatio, containers, image, parsed, fleet, nextId,
                   candidates, tmpl, config, n, i, cur, created, log,
                   jobErr, steps, sigSent, exitStatus, closed>>

ParseNext == ParseSet

ParseSpec == ParseInit /\ [][ParseNext]_vars

(* ---------------------------- properties ------------------------------ *)
InCopy == pc \in {"copy_inspect", "copy_create", "copy_start", "copy_ret"}

InDelete == pc \in {"del_enter", "del_stop", "del_wait", "del_remove",
                    "del_blocked", "del_ret"}

TeardownOps == {"stop", "wait", "remove"}

LogIndex == 1..Len(log)

AllOk == \A k \in LogIndex : log[k].ok

PoolIds == { candidates[k].ID : k \in 1..Len(candidates) }

\* C1: a SIGTERM delivered once the signals are wired, while main waits
\* for a tick or runs a step, leads to the process leaving the loop,
\* closing the client and exiting with status 0.
C1_SignalLeadsToExit ==
    (mode = "main" /\ sigSent > 0)
        ~> (pc = "exited" /\ exitStatus = 0 /\ closed)

\* C2: every inspect, stop, wait and remove call of a step goes to a
\* container that the step's listing shows with exactly the configured image.
C2_OnlyTargetImage ==
    mode = "main" =>
        \A k \in LogIndex :
            log[k].op \in {"inspect", "stop", "wait", "remove"} =>
                \E j \in 1..Len(containers) :
                    /\ containers[j].ID = log[k].id
                    /\ containers[j].Image = image

C2_Witness ==
    /\ mode = "main"
    /\ \E j \in 1..Len(containers) : containers[j].Image # image
    /\ \E k \in LogIndex : log[k].op = "inspect" /\ log[k].ok
    /\ \E k \in LogIndex : log[k].op = "remove" /\ log[k].ok

\* C3: deleteContainer with a count above the pool size returns the
\* insufficient-candidates error and issues no stop, wait or remove.
C3_TooManyNoCalls ==
    (mode = "unit" /\ InDelete /\ n > Len(candidates)) =>
        /\ log = <<>>
        /\ pc \in {"del_enter", "del_ret"}
        /\ (pc = "del_ret" => ret = "insufficient_err")

C3_Witness ==
    /\ mode = "unit"
    /\ pc = "del_ret"
    /\ Len(candidates) >= 1
    /\ n > Len(candidates)
    /\ ret = "insufficient_err"

\* C4: a failed stop, wait or remove is the last call that deleteContainer
\* issues, and deleteContainer has then returned a driver error instead of
\* blocking.
C4_FailFast ==
    \A k \in LogIndex :
        (log[k].op \in TeardownOps /\ ~log[k].ok) =>
            /\ k = Len(log)
            /\ pc \in {"del_ret", "job_ret"}
            /\ ret = "driver_err"

\* C5 as stated: copyContainer with n = 0 issues no driver call and returns
\* no error.
C5_ZeroCopiesNoCalls ==
    (mode = "unit" /\ InCopy /\ n = 0) =>
        /\ log = <<>>
        /\ (pc = "copy_ret" => ret = "nil")

\* C5 amended: copyContainer with n = 0 issues exactly one driver call, the
\* inspect of its container, and no create or start; it returns no error
\* when the inspect succeeds and a driver error when it fails.
C5_ZeroCopiesInspectOnly ==
    (mode = "unit" /\ InCopy /\ n = 0) =>
        /\ pc \in {"copy_inspect", "copy_ret"}
        /\ (pc = "copy_inspect" => log = <<>>)
        /\ (pc = "copy_ret" =>
               /\ Len(log) = 1
               /\ log[1].op = "inspect"
               /\ log[1].id = tmpl.ID
               /\ ret = IF log[1].ok THEN "nil" ELSE "driver_err")

C5_Witness ==
    /\ mode = "unit"
    /\ pc = "copy_ret"
    /\ n = 0
    /\ ret = "nil"
    /\ log = <<Call("inspect", tmpl.ID, TRUE)>>

\* C6: deleteContainer with n = 0 issues no driver call and returns no
\* error, whatever the pool, the empty pool included.
C6_ZeroDeletesNoCalls ==
    (mode = "unit" /\ InDelete /\ n = 0) =>
        /\ log = <<>>
        /\ pc \in {"del_enter", "del_ret"}
        /\ (pc = "del_ret" => ret = "nil")

C6_Witness ==
    /\ mode = "unit"
    /\ pc = "del_ret"
    /\ n = 0
    /\ candidates = <<>>
    /\ ret = "nil"
    /\ log = <<>>

\* C7: a step over a pool of P candidates with Down <= P whose driver calls
\* all succeed is the listing, one inspect, Up create+start pairs and Down
\* stop, wait, remove sequences, each on a member of the pool.
C7_ChurnCounts ==
    (mode = "main" /\ pc = "job_ret" /\ AllOk
        /\ Len(candidates) >= 1 /\ ratio.Down <= Len(candidates)) =>
        LET up == ratio.Up
            down == ratio.Down
        IN  /\ ret = "nil"
            /\ Len(log) = 2 + 2 * up + 3 * down
            /\ log[1].op = "list"
            /\ log[2].op = "inspect"
            /\ \A j \in 0..(up - 1) :
                  /\ log[3 + 2 * j].op = "create"
                  /\ log[4 + 2 * j].op = "start"
                  /\ log[4 + 2 * j].id = log[3 + 2 * j].id
            /\ \A j \in 0..(down - 1) :
                  LET base == 2 + 2 * up + 3 * j IN
                  /\ log[base + 1].op = "stop"
                  /\ log[base + 2].op = "wait"
                  /\ log[base + 3].op = "remove"
                  /\ log[base + 1].id \in PoolIds
                  /\ log[base + 2].id = log[base + 1].id
                  /\ log[base + 3].id = log[base + 1].id

C7_Witness ==
    /\ mode = "main"
    /\ pc = "job_ret"
    /\ AllOk
    /\ Len(candidates) = 3
    /\ ratio = [Up |-> 2, Down |-> 1]
    /\ Cardinality({k \in LogIndex : log[k].op = "create"}) = 2
    /\ Cardinality({k \in LogIndex : log[k].op = "remove"}) = 1

\* C8: when the listing succeeds and shows no container of the configured
\* image, the step issues no further driver call and returns no error.
C8_EmptyPoolNoop ==
    (/\ mode = "main"
     /\ Len(log) >= 1
     /\ log[1].op = "list"
     /\ log[1].ok
     /\ \A j \in 1..Len(containers) : containers[j].Image # image) =>
        /\ Len(log) = 1
        /\ pc = "job_ret"
        /\ ret = "nil"

C8_Witness ==
    /\ mode = "main"
    /\ pc = "job_ret"
    /\ ret = "nil"
    /\ log = <<Call("list", 0, TRUE)>>
    /\ Len(containers) >= 1
    /\ \A j \in 1..Len(containers) : containers[j].Image # image
    /\ ratio = [Up |-> 2, Down |-> 1]

\* C9: the ratio of every step is 1:1 when a side of the parsed ratio is
\* zero (the flag not given included) and the parsed ratio otherwise.
C9_RatioResolved ==
    (mode = "main" /\ InLoop) =>
        LET used == IF parsed.Up = 0 \/ parsed.Down = 0
                    THEN [Up |-> 1, Down |-> 1]
                    ELSE parsed
        IN  /\ ratio = used
            /\ (InCopy => n = used.Up)
            /\ (InDelete => n = used.Down)

C9_Witness ==
    /\ mode = "main"
    /\ pc = "del_stop"
    /\ argRatio = <<"0", ":", "2">>
    /\ parsed = [Up |-> 0, Down |-> 2]
    /\ n = 1

Colons(s) == { k \in 1..Len(s) : s[k] = ":" }

RECURSIVE DecValue(_)
DecValue(t) ==
    IF t = <<>> THEN 0
    ELSE DigitVal(Head(t)) * 10 ^ (Len(t) - 1) + DecValue(Tail(t))

IsUint8(t) ==
    /\ Len(t) >= 1
    /\ \A k \in 1..Len(t) : IsDigit(t[k])
    /\ DecValue(t) <= 255

LeftOf(s) == SubSeq(s, 1, (CHOOSE k \in Colons(s) : TRUE) - 1)

RightOf(s) == SubSeq(s, (CHOOSE k \in Colons(s) : TRUE) + 1, Len(s))

WellFormed(s) ==
    /\ Cardinality(Colons(s)) = 1
    /\ IsUint8(LeftOf(s))
    /\ IsUint8(RightOf(s))

\* C10: Set succeeds exactly on the strings made of two unsigned decimal
\* integers in 0..255 around one ':', and then stores the two values; on
\* every other string it returns an error.
C10_ParseExact ==
    (mode = "parse" /\ pc = "set_ret") =>
        IF WellFormed(argRatio)
        THEN /\ ret = "nil"
             /\ ratio = [Up |-> DecValue(LeftOf(argRatio)),
                          Down |-> DecValue(RightOf(argRatio))]
        ELSE ret = "format_err"

C10_Witness ==
    /\ mode = "parse"
    /\ pc = "set_ret"
    /\ argRatio = <<"2", "5", "6", ":", "1">>
    /\ ret = "format_err"

StepErrors == {"driver_err", "insufficient_err"}

\* C11: once main is in the loop, a step that returns an error does not end
\* the process: main goes back to the select, where the next tick starts a
\* new step; the process leaves the loop only after receiving a signal.
C11_ErrorsDoNotTerminate ==
    /\ [](pc = "select" => ENABLED Tick)
    /\ [][/\ ((pc = "job_ret" /\ ret \in StepErrors /\ pc' # pc) =>
                (pc' = "select" /\ jobErr' = ret /\ exitStatus' = NotExited))
           /\ ((InLoop /\ pc' = "exited") => pc = "got_signal")]_vars

C11_Witness ==
    /\ mode = "main"
    /\ pc = "job_list"
    /\ jobErr = "insufficient_err"
    /\ exitStatus = NotExited
    /\ steps = 2

InStep == pc \in {"job_list", "job_pick", "job_ret"} \/ InCopy \/ InDelete

\* C12: a signal is acted upon only in the select: a signal that arrives
\* during a step changes nothing of the step, and the process never leaves
\* the loop from inside a step.
C12_NoInterruptMidStep ==
    [][/\ ((InStep /\ sigSent' # sigSent) =>
              /\ pc' = pc
              /\ UNCHANGED <<fleet, nextId, containers, candidates, tmpl,
                             config, n, i, cur, created, ret, log>>)
       /\ ((InLoop /\ pc' \in {"got_signal", "exited"} /\ pc' # pc) =>
              pc \in {"select", "got_signal"})]_vars

C12_Witness ==
    /\ mode = "main"
    /\ steps = 1
    /\ sigSent = 1
    /\ pc = "job_ret"
    /\ ret = "nil"
    /\ exitStatus = NotExited
    /\ \E k \in LogIndex : log[k].op = "remove" /\ log[k].ok

OpsAt(ops) == { k \in LogIndex : log[k].op \in ops }

\* C13: one step at a time: a step starts only from the select, after the
\* previous step has returned, and is one listing, at most one inspect, the
\* creations and then the teardowns.
C13_OneStepAtATime ==
    /\ [](/\ OpsAt({"list"}) \subseteq {1}
          /\ OpsAt({"inspect"}) \subseteq {2}
          /\ \A k \in OpsAt({"create", "start"}) :
                \A j \in OpsAt(TeardownOps) : k < j
          /\ (pc = "select" => log = <<>> /\ candidates = <<>>))
    /\ [][(pc' = "job_list" /\ pc # "job_list") =>
             (pc = "select" /\ log = <<>>)]_vars

C13_Witness ==
    /\ mode = "main"
    /\ pc = "job_list"
    /\ steps = 2
    /\ jobErr = "nil"
    /\ log = <<>>
    /\ \E id \in Ids : fleet[id].state = "absent" /\ id < nextId

Done(k, op, id) == k >= 1 /\ log[k] = Call(op, id, TRUE)

\* C14: each drawn container gets stop, wait, remove in this order: a wait
\* follows a successful stop of the same container, a remove follows a
\* successful wait of the same container, and the next stop is issued only
\* after the remove has returned.
C14_TeardownOrder ==
    \A k \in LogIndex :
        /\ (log[k].op = "wait" => Done(k - 1, "stop", log[k].id))
        /\ (log[k].op = "remove" =>
               /\ Done(k - 1, "wait", log[k].id)
               /\ Done(k - 2, "stop", log[k].id))
        /\ ((log[k].op = "stop" /\ k > 1) =>
               /\ log[k - 1].op \notin {"stop", "wait"}
               /\ (log[k - 1].op = "remove" => log[k - 1].ok))

C14_Witness ==
    /\ mode = "main"
    /\ \E k \in LogIndex :
          /\ k >= 3
          /\ k < Len(log)
          /\ log[k].op = "remove"
          /\ log[k].ok
          /\ log[k + 1].op = "stop"

CreatedIds == { log[k].id : k \in { j \in OpsAt({"create"}) : log[j].ok } }

\* C15: the containers created in a step are not in the pool that the
\* step destroys from: none of them gets a stop, wait or remove in the step.
C15_ClonesNotDestroyed ==
    mode = "main" =>
        /\ \A k \in OpsAt(TeardownOps) : log[k].id \notin CreatedIds
        /\ PoolIds \cap CreatedIds = {}

C15_Witness ==
    /\ mode = "main"
    /\ CreatedIds # {}
    /\ \E k \in OpsAt({"remove"}) : log[k].ok
    /\ \E id \in CreatedIds : fleet[id].state = "running"

CopyOps == {"inspect", "create", "start"}

\* C16: when an inspect, create or start fails, the step returns that
\* error and issues no stop, wait or remove.
C16_FailedCopySkipsDelete ==
    (mode = "main" /\ \E k \in OpsAt(CopyOps) : ~log[k].ok) =>
        /\ OpsAt(TeardownOps) = {}
        /\ pc \in {"copy_ret", "job_ret"}
        /\ ret = "driver_err"

C16_Witness ==
    /\ mode = "main"
    /\ pc = "job_ret"
    /\ ret = "driver_err"
    /\ Len(log) = 4
    /\ log[4].op = "start"
    /\ ~log[4].ok
    /\ OpsAt(TeardownOps) = {}

StartedIds == { log[k].id : k \in { j \in OpsAt({"start"}) : log[j].ok } }

\* C17: copyContainer issues one inspect of its container, then create and
\* start in turn; the first failing call is its last call and makes it
\* return a driver error, and the clones made before the failure stay: the
\* started ones running, a created one that failed to start as created.
C17_FailFastNoRollback ==
    mode = "main" =>
        /\ \A k \in OpsAt({"inspect"}) : log[k].id = tmpl.ID
        /\ \A k \in OpsAt({"create"}) :
              /\ log[k - 1].op \in {"inspect", "start"}
              /\ log[k - 1].ok
        /\ \A k \in OpsAt({"start"}) :
              /\ log[k - 1].op = "create"
              /\ log[k - 1].ok
              /\ log[k - 1].id = log[k].id
        /\ \A k \in OpsAt(CopyOps) :
              ~log[k].ok =>
                  /\ k = Len(log)
                  /\ ret = "driver_err"
                  /\ pc \in {"copy_ret", "job_ret"}
        /\ \A id \in StartedIds : fleet[id].state = "running"
        /\ \A id \in CreatedIds \ StartedIds : fleet[id].state = "created"
        /\ (InCopy => Cardinality(StartedIds) = i)

C17_Witness ==
    /\ mode = "main"
    /\ pc = "job_ret"
    /\ ret = "driver_err"
    /\ Len(log) = 6
    /\ log[6].op = "start"
    /\ ~log[6].ok
    /\ Cardinality(StartedIds) = 1
    /\ Cardinality(CreatedIds) = 2
    /\ \A id \in CreatedIds : Exists(id)

RemovedIds == { log[k].id : k \in { j \in OpsAt({"remove"}) : log[j].ok } }

\* the iterations of deleteContainer can run to a second draw, and every draw
\* can take any member of the pool, the one just removed included
RedrawPossible ==
    /\ (pc = "del_stop" =>
          \A k \in 1..Len(candidates) : ENABLED (DelStop /\ cur' = candidates[k]))
    /\ ((pc = "del_stop" /\ Exists(cur.ID) /\ i = 0) =>
          ENABLED (DelStop /\ pc' = "del_wait"))
    /\ ((pc = "del_wait" /\ i = 0) => ENABLED (DelWait /\ pc' = "del_remove"))
    /\ ((pc = "del_remove" /\ i = 0 /\ n >= 2) =>
          ENABLED (DelRemove /\ pc' = "del_stop"))
    /\ ((pc = "del_stop" /\ i >= 1) =>
          /\ cur.ID \in RemovedIds
          /\ ~Exists(cur.ID)
          /\ ENABLED (DelStop /\ cur' = cur /\ pc' = "del_ret"))

\* C18 as stated: whenever deleteContainer is called with a pool of at least
\* one container and a count of at least two, its iterations can be entered
\* and can draw a container that the same call already removed.
C18_RedrawAnyPool ==
    mode = "unit" =>
        /\ ((pc = "del_enter" /\ Len(candidates) >= 1 /\ n >= 2) =>
              ENABLED (DelEnter /\ pc' = "del_stop"))
        /\ RedrawPossible

\* C18, amended: the same holds when the count is at least two and at most
\* the size of the pool (so the pool holds at least two containers); a larger
\* count is refused before any draw.
C18_RedrawWithinPool ==
    mode = "unit" =>
        /\ ((pc = "del_enter" /\ n >= 2 /\ n <= Len(candidates)) =>
              ENABLED (DelEnter /\ pc' = "del_stop"))
        /\ ((pc = "del_enter" /\ n > Len(candidates)) =>
              ~ENABLED (DelEnter /\ pc' = "del_stop"))
        /\ RedrawPossible

C18_Witness ==
    /\ mode = "unit"
    /\ pc = "del_ret"
    /\ n >= 2
    /\ Len(log) = 4
    /\ log[3].op = "remove"
    /\ log[3].ok
    /\ log[4].op = "stop"
    /\ log[4].id = log[3].id
    /\ ~log[4].ok

RunningTargets ==
    Cardinality({ id \in Ids : fleet[id].state = "running" /\ fleet[id].image = image })

\* C19: a step whose calls all succeed and whose Down count exceeds the size
\* of its non-empty pool makes all Up clones (create and start each), issues
\* no stop, wait or remove, ends with the insufficient-candidates error and
\* leaves Up more running containers of the image than it listed.
C19_InsufficientAfterCopies ==
    (/\ mode = "main"
     /\ pc = "job_ret"
     /\ AllOk
     /\ Len(candidates) >= 1
     /\ ratio.Down > Len(candidates)) =>
        /\ ret = "insufficient_err"
        /\ OpsAt(TeardownOps) = {}
        /\ Len(log) = 2 + 2 * ratio.Up
        /\ Cardinality(OpsAt({"create"})) = ratio.Up
        /\ Cardinality(StartedIds) = ratio.Up
        /\ ratio.Up >= 1
        /\ RunningTargets = Len(candidates) + ratio.Up

C19_Witness ==
    /\ mode = "main"
    /\ pc = "job_ret"
    /\ AllOk
    /\ Len(candidates) = 1
    /\ ratio.Down = 2
    /\ ratio.Up = 2
    /\ ret = "insufficient_err"
    /\ RunningTargets = 3

\* C20: once a container of the image is running, one is running ever after:
\* a step removes at most min(Down, P) containers of its pool of P, and it
\* issues its first stop only after all Up >= 1 clones were started.
C20_NeverEmpties ==
    /\ [](mode = "main" =>
            /\ Cardinality(OpsAt({"remove"})) <= ratio.Down
            /\ Cardinality(RemovedIds) <= Len(candidates)
            /\ RemovedIds \subseteq PoolIds
            /\ (OpsAt({"stop"}) # {} =>
                  /\ ratio.Up >= 1
                  /\ Cardinality(StartedIds) = ratio.Up
                  /\ \A id \in StartedIds : fleet[id].image = image))
    /\ [][(mode = "main" /\ RunningTargets >= 1) => RunningTargets' >= 1]_vars

C20_Witness ==
    /\ mode = "main"
    /\ pc = "job_ret"
    /\ ret = "nil"
    /\ Len(candidates) >= 1
    /\ PoolIds \subseteq RemovedIds
    /\ RunningTargets = ratio.Up
    /\ \A id \in Ids : (fleet[id].state = "running" /\ fleet[id].image = image) => id \in StartedIds

====
